---- MODULE Spec2Model ----
(***************************************************************************)
(* Model of the two publication parsers of the toolkit:                    *)
(*   - epub.Parser.Parse with its three resolvers (parseNavigationData,    *)
(*     parseEncryptionData, parseDisplayOptions);                          *)
(*   - parser.ImageParser.Parse with its acceptance test (accepts).        *)
(* Every parser call is one synchronous, single-threaded computation, so   *)
(* each call is one action; the calls a parser makes on its collaborators  *)
(* (resource fetches, document parsers) are recorded, in order, in trace.  *)
(***************************************************************************)
EXTENDS Integers, Sequences, FiniteSets, TLC

VARIABLES asset, fetcher, pc, result, trace

vars == <<asset, fetcher, pc, result, trace>>

\* ------------------------------------------------------------------ bounds

\* Longest archive listing handed to the image parser.
MaxLinks == 3
\* Longest manifest of a package document.
MaxItems == 2
\* Most options in one platform section of a display-options document.
MaxOptions == 2

\* ------------------------------------------------------------ small helpers

EmptyMap == [x \in {} |-> x]

NoError == <<>>

SeqsUpTo(S, n) == UNION {[1..k -> S] : k \in 0..n}

\* ------------------------------------------------------------ media types

EPUB == "application/epub+zip"
CBZ == "application/vnd.comicbook+zip"
CBR == "application/vnd.comicbook-rar"
ZIP == "application/zip"
NCX == "application/x-dtbncx+xml"

\* mediatype.MediaType.IsBitmap
IsBitmap(mt) == mt \in {"image/png", "image/jpeg"}

\* ============================================================== image parser

\* Byte value of a character: Go compares strings byte by byte.
Ord(c) ==
    CASE c = "." -> 46 [] c = "/" -> 47
      [] c = "0" -> 48 [] c = "1" -> 49 [] c = "2" -> 50
      [] c = "T" -> 84 [] c = "X" -> 88
      [] c = "a" -> 97 [] c = "b" -> 98 [] c = "c" -> 99 [] c = "d" -> 100
      [] c = "e" -> 101 [] c = "f" -> 102 [] c = "g" -> 103 [] c = "h" -> 104
      [] c = "i" -> 105 [] c = "j" -> 106 [] c = "l" -> 108 [] c = "m" -> 109
      [] c = "n" -> 110 [] c = "o" -> 111 [] c = "p" -> 112 [] c = "s" -> 115
      [] c = "t" -> 116 [] c = "u" -> 117 [] c = "x" -> 120

\* The < of two Go strings (line 48): bytewise lexicographic, a proper prefix first.
RECURSIVE StrLess(_, _)
StrLess(s, t) ==
    IF t = <<>> THEN FALSE
    ELSE IF s = <<>> THEN TRUE
    ELSE IF Ord(Head(s)) # Ord(Head(t)) THEN Ord(Head(s)) < Ord(Head(t))
    ELSE StrLess(Tail(s), Tail(t))

\* strings.ToLower on the characters of the model
LowerCh(c) == CASE c = "T" -> "t" [] c = "X" -> "x" [] OTHER -> c

ToLower(s) == [i \in 1..Len(s) |-> LowerCh(s[i])]

\* filepath.Ext: the suffix from the last dot of the last path element, or "".
RECURSIVE ExtFrom(_, _)
ExtFrom(path, i) ==
    IF i = 0 \/ path[i] = "/" THEN <<>>
    ELSE IF path[i] = "." THEN SubSeq(path, i, Len(path))
    ELSE ExtFrom(path, i - 1)

Ext(path) == ExtFrom(path, Len(path))

\* The last element of a path (filepath.Base, for paths not ending in a slash).
RECURSIVE BaseFrom(_, _)
BaseFrom(path, i) ==
    IF i = 0 \/ path[i] = "/" THEN SubSeq(path, i + 1, Len(path))
    ELSE BaseFrom(path, i - 1)

Base(path) == BaseFrom(path, Len(path))

\* extensions.IsHiddenOrThumbs: a dot file, or the Windows thumbnail cache.
IsHiddenOrThumbs(path) ==
    LET name == Base(path)
    IN  \/ (name # <<>> /\ Head(name) = ".")
        \/ name = <<"T", "h", "u", "m", "b", "s", ".", "d", "b">>

\* link.URL(nil, nil).Path()
URLPath(link) == link.href

\* link.Href.String()
HrefString(link) == link.href

allowed_extensions_image ==
    { <<"a", "c", "b", "f">>, <<"x", "m", "l">>, <<"t", "x", "t">>, <<"j", "s", "o", "n">> }

\* fext computed without lower-casing the path.
FileExtCaseSensitive(path) ==
    LET fext == Ext(path)
    IN  IF Len(fext) > 1 THEN Tail(fext) ELSE fext

\* fext of accepts: the lower-cased extension without its leading dot.
FileExt(path) ==
    LET fext == Ext(ToLower(path))
    IN  IF Len(fext) > 1 THEN Tail(fext) ELSE fext

\* The per-link test of the loop of accepts: TRUE when the link does not reject.
LinkAccepted(link) ==
    \/ IsHiddenOrThumbs(URLPath(link))
    \/ IsBitmap(link.mediaType)
    \/ FileExt(URLPath(link)) \in allowed_extensions_image

\* ImageParser.accepts: [ok, err, calls].
accepts(a, f) ==
    IF a.mediaType = CBZ \/ a.mediaType = CBR
    THEN [ok |-> TRUE, err |-> NoError, calls |-> <<>>]
    ELSE IF f.linksErr
    THEN [ok |-> FALSE, err |-> <<"links failed">>, calls |-> << <<"links", "accepts">> >>]
    ELSE [ok |-> \A i \in 1..Len(f.links) : LinkAccepted(f.links[i]),
          err |-> NoError, calls |-> << <<"links", "accepts">> >>]

\* The filter loop of Parse: the links kept, in enumeration order.
RECURSIVE FilterLinks(_)
FilterLinks(links) ==
    IF links = <<>> THEN <<>>
    ELSE LET link == Head(links)
         IN  IF IsHiddenOrThumbs(URLPath(link)) \/ ~IsBitmap(link.mediaType)
             THEN FilterLinks(Tail(links))
             ELSE <<link>> \o FilterLinks(Tail(links))

\* The bijections of 1..n.
Perms(n) == {p \in [1..n -> 1..n] : \A i, j \in 1..n : i # j => p[i] # p[j]}

\* A sort that leaves the slice in enumeration order.
SortSliceUnsorted(s) == {s}

\* sort.Slice with the comparison of line 48. The sort is not stable: every
\* ordering of the slice in which no later element is less than an earlier one
\* is a possible outcome.
SortSlice(s) ==
    { t \in {[i \in 1..Len(s) |-> s[p[i]]] : p \in Perms(Len(s))} :
        \A i, j \in 1..Len(t) :
            i < j => ~StrLess(HrefString(t[j]), HrefString(t[i])) }

NoManifest ==
    [title |-> "", identifier |-> "", readingOrder |-> <<>>,
     toc |-> EmptyMap, encryption |-> EmptyMap, displayOptions |-> EmptyMap]

\* The fetcher handed to pub.NewBuilder when it is the one Parse was given.
BaseFetcher == [transformed |-> FALSE, key |-> ""]

NoMatch ==
    [kind |-> "nomatch", err |-> NoError, manifest |-> NoManifest,
     fetcher |-> BaseFetcher]

Failure(err) ==
    [kind |-> "error", err |-> err, manifest |-> NoManifest, fetcher |-> BaseFetcher]

\* An empty filtered listing reported as no-match.
NoBitmapAsNoMatch == NoMatch

\* The outcome of Parse when no link is left after the filter.
NoBitmap == Failure(<<"no bitmap found in the publication">>)

\* ImageParser.Parse once the asset is accepted, for one outcome ro of the sort.
ImageBuild(a, f, ro) ==
    LET title == IF f.title = "" THEN a.name ELSE f.title
        tagged == [ro EXCEPT ![1].rels = <<"cover">>]
    IN  [kind |-> "builder", err |-> NoError,
         manifest |-> [NoManifest EXCEPT !.title = title, !.readingOrder = tagged],
         fetcher |-> BaseFetcher]

\* ImageParser.Parse: the set of possible [result, calls].
ImageParserParse(a, f) ==
    LET acc == accepts(a, f)
    IN  IF acc.err # NoError THEN {[result |-> Failure(acc.err), calls |-> acc.calls]}
        ELSE IF ~acc.ok THEN {[result |-> NoMatch, calls |-> acc.calls]}
        ELSE IF f.linksErr
        THEN {[result |-> Failure(<<"links failed">>),
               calls |-> acc.calls \o << <<"links", "Parse">> >>]}
        ELSE LET readingOrder == FilterLinks(f.links)
                 calls == acc.calls \o << <<"links", "Parse">> >>
             IN  IF Len(readingOrder) = 0
                 THEN {[result |-> NoBitmap, calls |-> calls]}
                 ELSE {[result |-> ImageBuild(a, f, ro), calls |-> calls] :
                          ro \in SortSlice(readingOrder)}

\* ---------------------------------------------------------- archive listings

Link(href, mt) == [href |-> href, mediaType |-> mt, rels |-> <<>>]

\* The archive entries the listings are drawn from: bitmaps whose plain and
\* numeric-aware orders differ (p10.png, p2.png), one path listed under two
\* bitmap types, a hidden bitmap, the system
\* thumbnail cache, metadata files (one upper-cased), a file without extension
\* below a directory named like a metadata file, and an executable.
LinkPool ==
    { Link(<<"a", ".", "p", "n", "g">>, "image/png"),
      Link(<<"a", ".", "p", "n", "g">>, "image/jpeg"),
      Link(<<"b", ".", "j", "p", "g">>, "image/jpeg"),
      Link(<<"c", ".", "p", "n", "g">>, "image/png"),
      Link(<<"p", "2", ".", "p", "n", "g">>, "image/png"),
      Link(<<"p", "1", "0", ".", "p", "n", "g">>, "image/png"),
      Link(<<".", "h", ".", "p", "n", "g">>, "image/png"),
      Link(<<"T", "h", "u", "m", "b", "s", ".", "d", "b">>, "application/octet-stream"),
      Link(<<"m", ".", "x", "m", "l">>, "application/xml"),
      Link(<<"i", ".", "T", "X", "T">>, "text/plain"),
      Link(<<"d", ".", "x", "m", "l", "/", "f">>, "application/octet-stream"),
      Link(<<"x", ".", "e", "x", "e">>, "application/octet-stream") }

ImageAssets == [mediaType : {CBZ, CBR, ZIP}, name : {"book"}]

ImageFetchers ==
    [res : {EmptyMap}, links : SeqsUpTo(LinkPool, MaxLinks),
     linksErr : BOOLEAN, title : {"", "Comics"}]

NoResult ==
    [kind |-> "none", err |-> NoError, manifest |-> NoManifest, fetcher |-> BaseFetcher]

InitImage ==
    /\ asset \in ImageAssets
    /\ fetcher \in ImageFetchers
    /\ pc = "start"
    /\ result = NoResult
    /\ trace = <<>>

\* One call of ImageParser.Parse.
ImageParse ==
    /\ pc = "start"
    /\ \E out \in ImageParserParse(asset, fetcher) :
          /\ result' = out.result
          /\ trace' = out.calls
    /\ pc' = "done"
    /\ UNCHANGED <<asset, fetcher>>

NextImage == ImageParse

SpecImage == InitImage /\ [][NextImage]_vars

\* =============================================================== EPUB parser

ContainerPath == "META-INF/container.xml"
EncryptionPath == "META-INF/encryption.xml"
IBooksDisplayOptionsPath == "META-INF/com.apple.ibooks.display-options.xml"
KoboDisplayOptionsPath == "META-INF/com.kobobooks.display-options.xml"
\* VocabularyItem + "nav"
NavProperty == "http://idpf.org/epub/vocab/package/item/#nav"
XHTML == "application/xhtml+xml"

\* The outcomes of fetching a resource and reading it as XML: the document, no
\* such resource, or a resource that is not well-formed XML.
Statuses == {"ok", "missing", "badxml"}

Missing == [status |-> "missing", body |-> <<>>]

\* fetcher.Get(link): the resource at a path.
Get(f, path) == IF path \in DOMAIN f.res THEN f.res[path] ELSE Missing

\* Resource.ReadAsXML: TRUE when it returns an error.
ReadAsXMLFails(r) == r.status # "ok"

\* GetRootFilePath: the path of the package document the container names.
GetRootFilePath(f) ==
    LET r == Get(f, ContainerPath)
        calls == << <<"get", ContainerPath>> >>
    IN  IF ReadAsXMLFails(r)
        THEN [path |-> "", err |-> <<"container.xml: " \o r.status>>, calls |-> calls]
        ELSE IF r.body = ""
        THEN [path |-> "", err |-> <<"no rootfile in container.xml">>, calls |-> calls]
        ELSE [path |-> r.body, err |-> NoError, calls |-> calls]

\* ParsePackageDocument: TRUE when the document is no valid package document.
ParsePackageDocumentFails(doc) == ~doc.valid

\* ParsePackageDocument on a valid document.
ParsePackageDocument(doc, opfPath) == [doc.package EXCEPT !.Path = opfPath]

\* packageDocument.Path.Resolve(href): the href taken relative to the directory
\* of the package document.
Resolve(base, href) ==
    IF base = "OEBPS/content.opf" THEN "OEBPS/" \o href ELSE href

\* ParseEncryption: the records of an encryption document.
ParseEncryption(n) == n

\* ParseNCX: the navigation map of a legacy index.
ParseNCX(n, ncxPath) == n

\* ParseNavDoc: the navigation map of a navigation document.
ParseNavDoc(n, navPath) == n

\* The loops of lines 97-102, 104-109 and 124-134: the index of the first
\* manifest entry, from i on, that the test selects; 0 (nil) when there is none.
\* by is "id" (v.ID = key), "type" (mediatype.NCX.Contains(v.MediaType)) or
\* "property" (key among v.Properties).
RECURSIVE FirstItem(_, _, _, _)
FirstItem(items, by, key, i) ==
    IF i > Len(items) THEN 0
    ELSE IF \/ (by = "id" /\ items[i].ID = key)
            \/ (by = "type" /\ items[i].MediaType = key)
            \/ (by = "property" /\ key \in items[i].Properties)
    THEN i
    ELSE FirstItem(items, by, key, i + 1)

\* parseEncryptionData: [ret, calls].
parseEncryptionData(f) ==
    LET r == Get(f, EncryptionPath)
        calls == << <<"run", "parseEncryptionData">>, <<"get", EncryptionPath>> >>
    IN  IF ReadAsXMLFails(r)
        THEN [ret |-> EmptyMap, calls |-> calls]
        ELSE [ret |-> ParseEncryption(r.body),
              calls |-> calls \o << <<"parse", "ParseEncryption">> >>]

\* The legacy branch picking the index by media type whenever the id search
\* found nothing.
ncxItemIndexWithFallback(pd) ==
    LET byId == FirstItem(pd.Manifest, "id", pd.Spine.TOC, 1)
    IN  IF pd.Spine.TOC # "" /\ byId # 0 THEN byId
        ELSE FirstItem(pd.Manifest, "type", NCX, 1)

\* The search of lines 95-110: the index of ncxItem in the manifest, 0 for nil.
ncxItemIndex(pd) ==
    IF pd.Spine.TOC # ""
    THEN FirstItem(pd.Manifest, "id", pd.Spine.TOC, 1)
    ELSE FirstItem(pd.Manifest, "type", NCX, 1)

\* The search of lines 123-134: the index of navItem in the manifest, 0 for nil.
navItemIndex(pd) == FirstItem(pd.Manifest, "property", NavProperty, 1)

\* The legacy-index strategy, lines 95-121.
NavigationFromNCX(pd, f) ==
    LET i == ncxItemIndex(pd)
    IN  IF i = 0 THEN [ret |-> EmptyMap, calls |-> <<>>]
        ELSE LET ncxPath == Resolve(pd.Path, pd.Manifest[i].Href)
                 r == Get(f, ncxPath)
             IN  IF ReadAsXMLFails(r)
                 THEN [ret |-> EmptyMap, calls |-> << <<"get", ncxPath>> >>]
                 ELSE [ret |-> ParseNCX(r.body, ncxPath),
                       calls |-> << <<"get", ncxPath>>, <<"parse", "ParseNCX">> >>]

\* The navigation-document strategy, lines 123-146.
NavigationFromNavDoc(pd, f) ==
    LET i == navItemIndex(pd)
    IN  IF i = 0 THEN [ret |-> EmptyMap, calls |-> <<>>]
        ELSE LET navPath == Resolve(pd.Path, pd.Manifest[i].Href)
                 r == Get(f, navPath)
             IN  IF ReadAsXMLFails(r)
                 THEN [ret |-> EmptyMap, calls |-> << <<"get", navPath>> >>]
                 ELSE [ret |-> ParseNavDoc(r.body, navPath),
                       calls |-> << <<"get", navPath>>, <<"parse", "ParseNavDoc">> >>]

\* A resolver that tries the legacy index whenever the navigation document
\* gave nothing.
parseNavigationDataBoth(pd, f) ==
    LET nav == NavigationFromNavDoc(pd, f)
        ncx == NavigationFromNCX(pd, f)
        run == << <<"run", "parseNavigationData">> >>
    IN  IF pd.EPUBVersion < 30
        THEN [ret |-> ncx.ret, calls |-> run \o ncx.calls]
        ELSE IF nav.ret # EmptyMap THEN [ret |-> nav.ret, calls |-> run \o nav.calls]
        ELSE [ret |-> ncx.ret, calls |-> run \o nav.calls \o ncx.calls]

\* parseNavigationData: [ret, calls]. EPUBVersion is held in tenths (3.0 is 30).
parseNavigationData(pd, f) ==
    LET strategy == IF pd.EPUBVersion < 30
                    THEN NavigationFromNCX(pd, f)
                    ELSE NavigationFromNavDoc(pd, f)
    IN  [ret |-> strategy.ret,
         calls |-> << <<"run", "parseNavigationData">> >> \o strategy.calls]

\* ret[optName] = optValue
MapSet(m, k, v) == [n \in DOMAIN m \cup {k} |-> IF n = k THEN v ELSE m[n]]

\* The loop of lines 162-168 over the option elements of a platform section.
RECURSIVE CollectOptions(_, _)
CollectOptions(options, ret) ==
    IF options = <<>> THEN ret
    ELSE LET option == Head(options)
         IN  IF option.name # "" /\ option.value # ""
             THEN CollectOptions(Tail(options), MapSet(ret, option.name, option.value))
             ELSE CollectOptions(Tail(options), ret)

\* Lines 161-170: a display-options document is the sequence of its platform
\* sections in document order; SelectElement("//platform") takes the first.
OptionsOfDocument(doc) ==
    IF doc = <<>> THEN EmptyMap ELSE CollectOptions(doc[1], EmptyMap)

\* A resolver that fetches both documents before it looks at either.
parseDisplayOptionsBoth(f) ==
    LET primary == Get(f, IBooksDisplayOptionsPath)
        secondary == Get(f, KoboDisplayOptionsPath)
        calls == << <<"run", "parseDisplayOptions">>,
                    <<"get", IBooksDisplayOptionsPath>>,
                    <<"get", KoboDisplayOptionsPath>> >>
    IN  IF ~ReadAsXMLFails(primary)
        THEN [ret |-> OptionsOfDocument(primary.body), calls |-> calls]
        ELSE IF ~ReadAsXMLFails(secondary)
        THEN [ret |-> OptionsOfDocument(secondary.body), calls |-> calls]
        ELSE [ret |-> EmptyMap, calls |-> calls]

\* parseDisplayOptions: [ret, calls].
parseDisplayOptions(f) ==
    LET primary == Get(f, IBooksDisplayOptionsPath)
        secondary == Get(f, KoboDisplayOptionsPath)
        run == << <<"run", "parseDisplayOptions">>, <<"get", IBooksDisplayOptionsPath>> >>
    IN  IF ~ReadAsXMLFails(primary)
        THEN [ret |-> OptionsOfDocument(primary.body), calls |-> run]
        ELSE IF ~ReadAsXMLFails(secondary)
        THEN [ret |-> OptionsOfDocument(secondary.body),
              calls |-> run \o << <<"get", KoboDisplayOptionsPath>> >>]
        ELSE [ret |-> EmptyMap, calls |-> run \o << <<"get", KoboDisplayOptionsPath>> >>]

\* errors.Wrap(err, message)
Wrap(err, message) == <<message>> \o err

\* PublicationFactory.Create: the manifest assembled from the package document
\* and the three maps; the fallback title stands in for a missing title.
Create(fallbackTitle, pd, navigationData, encryptionData, displayOptions) ==
    [title |-> IF pd.Title = "" THEN fallbackTitle ELSE pd.Title,
     identifier |-> pd.Identifier,
     readingOrder |-> <<>>,
     toc |-> navigationData,
     encryption |-> encryptionData,
     displayOptions |-> displayOptions]

\* A deobfuscating fetcher installed whatever the identifier.
WrapFetcherAlways(identifier) == [transformed |-> TRUE, key |-> identifier]

\* Lines 65-68: the fetcher handed to the builder.
WrapFetcher(identifier) ==
    IF identifier # ""
    THEN [transformed |-> TRUE, key |-> identifier]
    ELSE BaseFetcher

\* An assembly that gives up when the encryption document cannot be read.
AssembleEncryptionFatal(a, f, pd) ==
    LET nav == parseNavigationData(pd, f)
        enc == parseEncryptionData(f)
        dis == parseDisplayOptions(f)
        manifest == Create(a.name, pd, nav.ret, enc.ret, dis.ret)
    IN  IF ReadAsXMLFails(Get(f, EncryptionPath))
        THEN [result |-> Failure(<<"invalid encryption.xml">>),
              calls |-> nav.calls \o enc.calls]
        ELSE [result |-> [kind |-> "builder", err |-> NoError, manifest |-> manifest,
                          fetcher |-> WrapFetcher(manifest.identifier)],
              calls |-> nav.calls \o enc.calls \o dis.calls]

\* Lines 57-77: the three resolvers, in the order of the composite literal, the
\* manifest, the fetcher and the builder.
Assemble(a, f, pd) ==
    LET nav == parseNavigationData(pd, f)
        enc == parseEncryptionData(f)
        dis == parseDisplayOptions(f)
        manifest == Create(a.name, pd, nav.ret, enc.ret, dis.ret)
    IN  [result |-> [kind |-> "builder", err |-> NoError, manifest |-> manifest,
                     fetcher |-> WrapFetcher(manifest.identifier)],
         calls |-> nav.calls \o enc.calls \o dis.calls]

\* Lines 35-78: Parse for an asset of the EPUB media type.
ParsePackage(a, f) ==
    LET root == GetRootFilePath(f)
    IN  IF root.err # NoError
        THEN [result |-> Failure(root.err), calls |-> root.calls]
        ELSE LET opfPath == root.path
                 opf == Get(f, opfPath)
                 calls == root.calls \o << <<"get", opfPath>> >>
             IN  IF ReadAsXMLFails(opf)
                 THEN [result |-> Failure(<<opfPath \o ": " \o opf.status>>),
                       calls |-> calls]
                 ELSE IF ParsePackageDocumentFails(opf.body)
                 THEN [result |-> Failure(Wrap(<<"malformed package document">>,
                                               "invalid OPF file")),
                       calls |-> calls \o << <<"parse", "ParsePackageDocument">> >>]
                 ELSE LET out == Assemble(a, f, ParsePackageDocument(opf.body, opfPath))
                      IN  [result |-> out.result,
                           calls |-> calls \o << <<"parse", "ParsePackageDocument">> >>
                                       \o out.calls]

\* A Parse that locates the package document before it looks at the media type.
EpubParserParseLocateFirst(a, f) ==
    LET root == GetRootFilePath(f)
    IN  IF a.mediaType # EPUB
        THEN [result |-> NoMatch, calls |-> root.calls]
        ELSE ParsePackage(a, f)

\* Parser.Parse: [result, calls].
EpubParserParse(a, f) ==
    IF a.mediaType # EPUB
    THEN [result |-> NoMatch, calls |-> <<>>]
    ELSE ParsePackage(a, f)

\* ------------------------------------------------------------ EPUB fixtures

OpfPath == "OEBPS/content.opf"

Item(id, href, mt, props) ==
    [ID |-> id, Href |-> href, MediaType |-> mt, Properties |-> props]

NcxItem == Item("ncx", "toc.ncx", NCX, {})
NavItem == Item("nav", "nav.xhtml", XHTML, {NavProperty})
\* A second legacy index, not the one the spine names.
AltNcxItem == Item("alt", "alt.ncx", NCX, {})
ChapterItem == Item("c1", "c1.xhtml", XHTML, {})

Package(version, toc, items, identifier) ==
    [EPUBVersion |-> version, Spine |-> [TOC |-> toc], Manifest |-> items,
     Path |-> "", Title |-> "Moby-Dick", Identifier |-> identifier]

NcxMap == [r \in {"toc"} |-> <<"ncx-chapter-1">>]
AltNcxMap == [r \in {"toc"} |-> <<"alt-chapter-1">>]
NavMap == [r \in {"toc", "landmarks"} |-> <<"nav-chapter-1">>]
EncryptionMap == [u \in {"OEBPS/font.otf"} |-> "http://www.idpf.org/2008/embedding"]

Option(name, value) == [name |-> name, value |-> value]

IBooksDocument == << <<Option("fixed-layout", "true")>> >>
KoboDocument == << <<Option("fixed-layout", "false"), Option("orientation", "")>> >>

Res(status, body) == [status |-> status, body |-> body]

\* A fetcher over an EPUB container: the resource at each path.
EpubFetcher(container, opf, enc, ibooks, kobo, ncx, alt, nav) ==
    [res |-> (ContainerPath :> container) @@ (OpfPath :> opf)
               @@ (EncryptionPath :> enc)
               @@ (IBooksDisplayOptionsPath :> ibooks)
               @@ (KoboDisplayOptionsPath :> kobo)
               @@ ("OEBPS/toc.ncx" :> ncx) @@ ("OEBPS/alt.ncx" :> alt)
               @@ ("OEBPS/nav.xhtml" :> nav),
     links |-> <<>>, linksErr |-> FALSE, title |-> ""]

EpubAssets == [mediaType : {EPUB, CBZ}, name : {"book"}]

\* ------------------------------------------------- specification: Parser.Parse

InitEpub ==
    /\ asset \in EpubAssets
    /\ \E container \in {"ok", "missing"}, opfStatus \in Statuses, valid \in BOOLEAN,
          version \in {20, 30}, toc \in {"", "ncx"},
          items \in SeqsUpTo({NcxItem, NavItem}, MaxItems),
          identifier \in {"", "urn:uuid:1"},
          encStatus \in Statuses, ibooksStatus \in Statuses, koboStatus \in Statuses,
          ncxStatus \in Statuses, navStatus \in Statuses :
          fetcher = EpubFetcher(
              Res(container, OpfPath),
              Res(opfStatus, [valid |-> valid,
                              package |-> Package(version, toc, items, identifier)]),
              Res(encStatus, EncryptionMap),
              Res(ibooksStatus, IBooksDocument),
              Res(koboStatus, KoboDocument),
              Res(ncxStatus, NcxMap), Res(ncxStatus, AltNcxMap), Res(navStatus, NavMap))
    /\ pc = "start"
    /\ result = NoResult
    /\ trace = <<>>

\* One call of Parser.Parse.
EpubParse ==
    /\ pc = "start"
    /\ LET out == EpubParserParse(asset, fetcher)
       IN  /\ result' = out.result
           /\ trace' = out.calls
    /\ pc' = "done"
    /\ UNCHANGED <<asset, fetcher>>

NextEpub == EpubParse

SpecEpub == InitEpub /\ [][NextEpub]_vars

\* ---------------------------------------- specification: parseNavigationData

\* An entry of the legacy media type, named by the spine, that also carries
\* the nav property.
NcxNavItem == Item("ncx", "toc.ncx", NCX, {NavProperty})

ItemPool == {NcxItem, NavItem, AltNcxItem, ChapterItem, NcxNavItem}

\* The package document Parse hands to the resolver.
PackageOf(f) == ParsePackageDocument(f.res[OpfPath].body, OpfPath)

InitNav ==
    /\ asset \in [mediaType : {EPUB}, name : {"book"}]
    /\ \E version \in {20, 30, 31}, toc \in {"", "ncx", "alt", "gone"},
          items \in SeqsUpTo(ItemPool, MaxItems),
          ncxStatus \in Statuses, altStatus \in Statuses, navStatus \in Statuses :
          fetcher = EpubFetcher(
              Res("ok", OpfPath),
              Res("ok", [valid |-> TRUE, package |-> Package(version, toc, items, "")]),
              Missing, Missing, Missing,
              Res(ncxStatus, NcxMap), Res(altStatus, AltNcxMap), Res(navStatus, NavMap))
    /\ pc = "start"
    /\ result = EmptyMap
    /\ trace = <<>>

\* One call of parseNavigationData.
NavResolve ==
    /\ pc = "start"
    /\ LET out == parseNavigationData(PackageOf(fetcher), fetcher)
       IN  /\ result' = out.ret
           /\ trace' = out.calls
    /\ pc' = "done"
    /\ UNCHANGED <<asset, fetcher>>

NextNav == NavResolve

SpecNav == InitNav /\ [][NextNav]_vars

\* ---------------------------------------- specification: parseDisplayOptions

OptionPool ==
    { Option("fixed-layout", "true"), Option("fixed-layout", "false"),
      Option("orientation", "portrait"), Option("", "true"), Option("orientation", "") }

PlatformSections == SeqsUpTo(OptionPool, MaxOptions)

\* Documents without a platform section, with one, and with a second one after it.
DisplayDocuments ==
    {<<>>} \cup {<<p>> : p \in PlatformSections}
           \cup {<<p, <<Option("open-to-spread", "true")>> >> : p \in PlatformSections}

DisplayResources ==
    {Res("missing", <<>>), Res("badxml", <<>>)}
        \cup {Res("ok", d) : d \in DisplayDocuments}

InitDisplay ==
    /\ asset \in [mediaType : {EPUB}, name : {"book"}]
    /\ \E ibooks \in DisplayResources, kobo \in DisplayResources :
          fetcher = EpubFetcher(Res("ok", OpfPath), Missing, Missing, ibooks, kobo,
                                Missing, Missing, Missing)
    /\ pc = "start"
    /\ result = EmptyMap
    /\ trace = <<>>

\* One call of parseDisplayOptions.
DisplayResolve ==
    /\ pc = "start"
    /\ LET out == parseDisplayOptions(fetcher)
       IN  /\ result' = out.ret
           /\ trace' = out.calls
    /\ pc' = "done"
    /\ UNCHANGED <<asset, fetcher>>

NextDisplay == DisplayResolve

SpecDisplay == InitDisplay /\ [][NextDisplay]_vars

\* ================================================== properties: image parser

Range(s) == {s[i] : i \in 1..Len(s)}

Count(s, x) == Cardinality({i \in 1..Len(s) : s[i] = x})

Hrefs(s) == [i \in 1..Len(s) |-> s[i].href]

Untagged(s) == [i \in 1..Len(s) |-> [s[i] EXCEPT !.rels = <<>>]]

\* A resource that is neither a hidden/system file nor of a non-bitmap type.
VisibleBitmap(link) == ~IsHiddenOrThumbs(link.href) /\ IsBitmap(link.mediaType)

\* The path ends, whatever its case, in a dot followed by an allow-listed extension.
EndsInAllowedExtension(path) ==
    \E e \in allowed_extensions_image :
        /\ Len(path) > Len(e)
        /\ ToLower(SubSeq(path, Len(path) - Len(e), Len(path))) = <<".">> \o e

\* The acceptance rule as the specification words it.
Acceptable ==
    \/ asset.mediaType \in {CBZ, CBR}
    \/ \A i \in 1..Len(fetcher.links) :
          \/ IsHiddenOrThumbs(fetcher.links[i].href)
          \/ IsBitmap(fetcher.links[i].mediaType)
          \/ EndsInAllowedExtension(fetcher.links[i].href)

Listed == pc = "done" /\ ~fetcher.linksErr

a_png == <<"a", ".", "p", "n", "g">>
b_jpg == <<"b", ".", "j", "p", "g">>
c_png == <<"c", ".", "p", "n", "g">>
p2_png == <<"p", "2", ".", "p", "n", "g">>
p10_png == <<"p", "1", "0", ".", "p", "n", "g">>
m_xml == <<"m", ".", "x", "m", "l">>
x_exe == <<"x", ".", "e", "x", "e">>

\* C6: for an accepted archive with at least one visible bitmap, Parse builds a
\* manifest whose reading order holds exactly the visible bitmaps of the listing
\* (each as often as listed, nothing else), in ascending bytewise order of the
\* path whatever the enumeration order (so p10.png precedes p2.png), and the
\* first element of that order carries the "cover" relation.
C6_ReadingOrderSortedWithCover ==
    (Listed /\ Acceptable /\ \E i \in 1..Len(fetcher.links) : VisibleBitmap(fetcher.links[i]))
    => /\ result.kind = "builder"
       /\ LET ro == result.manifest.readingOrder
          IN  /\ Len(ro) = Cardinality({i \in 1..Len(fetcher.links) :
                                           VisibleBitmap(fetcher.links[i])})
              /\ \A l \in LinkPool :
                    Count(Untagged(ro), l)
                      = IF VisibleBitmap(l) THEN Count(fetcher.links, l) ELSE 0
              /\ \A i \in 1..(Len(ro) - 1) : ~StrLess(ro[i + 1].href, ro[i].href)
              /\ ro[1].rels = <<"cover">>
              /\ \A i \in 2..Len(ro) : ro[i].rels = <<>>
              /\ (Hrefs(fetcher.links) = <<b_jpg, a_png, c_png>>
                    => Hrefs(ro) = <<a_png, b_jpg, c_png>>)
              /\ (Hrefs(fetcher.links) = <<p2_png, m_xml, p10_png>>
                    => Hrefs(ro) = <<p10_png, p2_png>>)

\* C6 witness: a listing enumerated out of order, with a metadata file to drop,
\* was assembled: the cover is not the first bitmap enumerated.
C6_Witness ==
    /\ pc = "done"
    /\ result.kind = "builder"
    /\ Hrefs(fetcher.links) = <<p2_png, m_xml, p10_png>>
    /\ Hrefs(result.manifest.readingOrder) = <<p10_png, p2_png>>
    /\ result.manifest.readingOrder[1].rels = <<"cover">>

\* C7: a CBZ or CBR asset is accepted without listing the archive; any other
\* asset whose archive was listed is accepted exactly when every entry that is
\* neither hidden nor a bitmap ends in an allow-listed extension, whatever its
\* case; a rejection is a no-match without error and without manifest.
C7_Acceptance ==
    pc = "done"
    => /\ (asset.mediaType \in {CBZ, CBR}
             => /\ result.kind # "nomatch"
                /\ <<"links", "accepts">> \notin Range(trace))
       /\ (asset.mediaType \notin {CBZ, CBR} /\ ~fetcher.linksErr
             => /\ (result.kind # "nomatch") <=> Acceptable
                /\ (result.kind = "nomatch" => result = NoMatch)
                /\ (Hrefs(fetcher.links) = <<a_png, x_exe>> => result = NoMatch))

\* C7 witness: a plain archive of one bitmap and one executable was refused.
C7_Witness ==
    /\ pc = "done"
    /\ asset.mediaType = ZIP
    /\ Hrefs(fetcher.links) = <<a_png, x_exe>>
    /\ result.kind = "nomatch"

\* C8: every manifest Parse returns has a non-empty reading order; an accepted
\* archive whose listing holds no visible bitmap ends in the "no bitmap found"
\* error with no manifest, not in a no-match and not in an empty manifest.
C8_NeverEmptyReadingOrder ==
    pc = "done"
    => /\ (result.kind = "builder" => Len(result.manifest.readingOrder) > 0)
       /\ (/\ ~fetcher.linksErr
           /\ Acceptable
           /\ \A i \in 1..Len(fetcher.links) : ~VisibleBitmap(fetcher.links[i])
           => /\ result.kind = "error"
              /\ result.err = <<"no bitmap found in the publication">>
              /\ result.manifest = NoManifest)

\* C8 witness: an archive holding only metadata.xml was accepted and then failed.
C8_Witness ==
    /\ pc = "done"
    /\ asset.mediaType = ZIP
    /\ Hrefs(fetcher.links) = <<m_xml>>
    /\ result.kind = "error"
    /\ <<"links", "Parse">> \in Range(trace)

\* ==================================================== properties: EPUB parser

Gets(t) == {t[i][2] : i \in {j \in 1..Len(t) : t[j][1] = "get"}}

Parses(t) == {t[i][2] : i \in {j \in 1..Len(t) : t[j][1] = "parse"}}

Runs(t) == {t[i][2] : i \in {j \in 1..Len(t) : t[j][1] = "run"}}

NumGets(t, path) == Count(t, <<"get", path>>)

Readable(path) == fetcher.res[path].status = "ok"

\* The package document the fetcher holds, as written in the container.
Declared == fetcher.res[OpfPath].body.package

\* Parse was given an EPUB whose package document was located, fetched and parsed.
DescriptorParsed ==
    /\ pc = "done"
    /\ asset.mediaType = EPUB
    /\ Readable(ContainerPath)
    /\ Readable(OpfPath)
    /\ fetcher.res[OpfPath].body.valid

\* C1: once the package document is parsed, Parse returns a manifest and no
\* error whatever the three resolvers meet; each of the three is run; a resolver
\* whose resource is missing or unreadable contributes the empty map, and the
\* maps of the others are the ones their own resources give.
C1_ResolversDegradeIndependently ==
    DescriptorParsed
    => /\ result.kind = "builder"
       /\ result.err = NoError
       /\ Runs(trace) = {"parseNavigationData", "parseEncryptionData", "parseDisplayOptions"}
       /\ NumGets(trace, EncryptionPath) = 1
       /\ NumGets(trace, IBooksDisplayOptionsPath) = 1
       /\ result.manifest.encryption
            = IF Readable(EncryptionPath) THEN EncryptionMap ELSE EmptyMap
       /\ result.manifest.displayOptions
            = IF Readable(IBooksDisplayOptionsPath) THEN [n \in {"fixed-layout"} |-> "true"]
              ELSE IF Readable(KoboDisplayOptionsPath) THEN [n \in {"fixed-layout"} |-> "false"]
              ELSE EmptyMap
       /\ result.manifest.toc
            = IF Declared.EPUBVersion < 30
              THEN IF NcxItem \in Range(Declared.Manifest) /\ Readable("OEBPS/toc.ncx")
                   THEN NcxMap ELSE EmptyMap
              ELSE IF NavItem \in Range(Declared.Manifest) /\ Readable("OEBPS/nav.xhtml")
                   THEN NavMap ELSE EmptyMap

\* C1 witness: the encryption document is malformed, the primary display
\* options are missing and the navigation document cannot be read, and a
\* manifest came back with the secondary vendor's display options.
C1_Witness ==
    /\ DescriptorParsed
    /\ fetcher.res[EncryptionPath].status = "badxml"
    /\ fetcher.res[IBooksDisplayOptionsPath].status = "missing"
    /\ Declared.EPUBVersion = 30
    /\ NavItem \in Range(Declared.Manifest)
    /\ ~Readable("OEBPS/nav.xhtml")
    /\ result.kind = "builder"
    /\ result.manifest.encryption = EmptyMap
    /\ result.manifest.toc = EmptyMap
    /\ result.manifest.displayOptions = [n \in {"fixed-layout"} |-> "false"]

\* C3: the fetcher Parse returns deobfuscates exactly when the identifier of
\* the manifest assembled in that call is non-empty, keyed by that identifier;
\* with an empty identifier it is the fetcher Parse was given.
C3_TransformIffIdentifier ==
    (pc = "done" /\ result.kind = "builder")
    => /\ result.manifest.identifier = Declared.Identifier
       /\ result.fetcher.transformed <=> (result.manifest.identifier # "")
       /\ (result.fetcher.transformed => result.fetcher.key = result.manifest.identifier)
       /\ (result.manifest.identifier = "" => result.fetcher = BaseFetcher)

\* C3 witness: a publication without identifier was built on the base fetcher.
C3_Witness ==
    /\ pc = "done"
    /\ result.kind = "builder"
    /\ Declared.Identifier = ""
    /\ result.fetcher = BaseFetcher

\* C4: for an asset that is not an EPUB, Parse answers no-match, without
\* builder and without error, and has fetched nothing at all.
C4_NoMatchWithoutFetch ==
    (pc = "done" /\ asset.mediaType # EPUB)
    => /\ result = NoMatch
       /\ trace = <<>>

\* C4 witness: a comic-book asset over a complete EPUB container was refused.
C4_Witness ==
    /\ pc = "done"
    /\ asset.mediaType = CBZ
    /\ Readable(ContainerPath)
    /\ Readable(OpfPath)
    /\ result.kind = "nomatch"

\* The package document was located and then could not be fetched or parsed.
DescriptorFailed ==
    /\ pc = "done"
    /\ asset.mediaType = EPUB
    /\ Readable(ContainerPath)
    /\ (~Readable(OpfPath) \/ ~fetcher.res[OpfPath].body.valid)

\* C5: when the located package document cannot be fetched, or cannot be
\* parsed, Parse returns an error and no manifest, the error wrapped in both
\* cases with the context naming the package document, and no resolver runs.
C5_DescriptorFailureWrapped ==
    DescriptorFailed
    => /\ result.kind = "error"
       /\ result.manifest = NoManifest
       /\ Len(result.err) > 1
       /\ Head(result.err) = "invalid OPF file"
       /\ Runs(trace) = {}

\* ------------------------------------------- properties: parseNavigationData

NavPathOf(item) == Resolve(OpfPath, item.Href)

\* The least index of a set of indices, 0 for the empty set.
Least(hits) == IF hits = {} THEN 0 ELSE CHOOSE i \in hits : \A j \in hits : i <= j

Indices(items) == 1..Len(items)

\* C2: a call runs at most one strategy. From version 3.0 on ParseNCX is never
\* called and nothing is fetched but the first entry carrying the nav property,
\* even when the manifest holds an entry of the legacy media type or the entry
\* the spine names; below 3.0 ParseNavDoc is never called and nothing is fetched
\* but an entry named by the spine or of the legacy media type, even when an
\* entry carries the nav property.
C2_StrategyExclusive ==
    pc = "done"
    => LET items == Declared.Manifest
           nav == Least({i \in Indices(items) : NavProperty \in items[i].Properties})
       IN  /\ Cardinality(Parses(trace)) <= 1
           /\ Cardinality({i \in 1..Len(trace) : trace[i][1] = "get"}) <= 1
           /\ (Declared.EPUBVersion >= 30
                 => /\ "ParseNCX" \notin Parses(trace)
                    /\ Gets(trace) \subseteq
                         (IF nav = 0 THEN {} ELSE {NavPathOf(items[nav])}))
           /\ (Declared.EPUBVersion < 30
                 => /\ "ParseNavDoc" \notin Parses(trace)
                    /\ Gets(trace) \subseteq
                         {NavPathOf(items[i]) : i \in {j \in 1..Len(items) :
                             \/ items[j].ID = Declared.Spine.TOC
                             \/ items[j].MediaType = NCX}})

\* C2 witness: a version 3.0 package whose spine names a readable legacy index
\* and whose manifest has no navigation document resolved to the empty map
\* without touching the index.
C2_Witness ==
    /\ pc = "done"
    /\ Declared.EPUBVersion = 30
    /\ Declared.Spine.TOC = "ncx"
    /\ Declared.Manifest = <<ChapterItem, NcxItem>>
    /\ Readable("OEBPS/toc.ncx")
    /\ result = EmptyMap
    /\ Gets(trace) = {}

\* The entry the legacy strategy works on shows in the trace: it is the one
\* fetched, and with no entry nothing is fetched and the map is empty.
LegacySelects(i) ==
    IF i = 0
    THEN result = EmptyMap /\ trace = << <<"run", "parseNavigationData">> >>
    ELSE /\ Len(trace) >= 2
         /\ trace[2] = <<"get", NavPathOf(Declared.Manifest[i])>>
         /\ NumGets(trace, NavPathOf(Declared.Manifest[i])) = Cardinality(Gets(trace))
         /\ (Readable(NavPathOf(Declared.Manifest[i]))
               => result = fetcher.res[NavPathOf(Declared.Manifest[i])].body)

\* C10 as stated: below 3.0 the entry whose id is the spine's toc id is
\* selected when there is one; otherwise, the spine declaring no toc id or one
\* that matches no entry, the first entry of the legacy media type is selected.
C10_LegacySelectionWithFallback ==
    (pc = "done" /\ Declared.EPUBVersion < 30)
    => LET items == Declared.Manifest
           byId == Least({i \in Indices(items) : items[i].ID = Declared.Spine.TOC})
           byType == Least({i \in Indices(items) : items[i].MediaType = NCX})
       IN  LegacySelects(IF Declared.Spine.TOC # "" /\ byId # 0 THEN byId ELSE byType)

\* C10 amended: below 3.0, when the spine declares a toc id the first entry
\* with that id is selected, and when no entry has it nothing is selected (the
\* empty map, no fetch, no fallback to the media type); only when the spine
\* declares no toc id is the first entry of the legacy media type selected.
C10_LegacySelection ==
    (pc = "done" /\ Declared.EPUBVersion < 30)
    => LET items == Declared.Manifest
           byId == Least({i \in Indices(items) : items[i].ID = Declared.Spine.TOC})
           byType == Least({i \in Indices(items) : items[i].MediaType = NCX})
       IN  LegacySelects(IF Declared.Spine.TOC # "" THEN byId ELSE byType)

\* C10 witness: the spine names an id no entry has while the manifest holds a
\* readable legacy index: the map is empty and the index was not fetched.
C10_Witness ==
    /\ pc = "done"
    /\ Declared.EPUBVersion = 20
    /\ Declared.Spine.TOC = "gone"
    /\ Declared.Manifest = <<NcxItem>>
    /\ Readable("OEBPS/toc.ncx")
    /\ result = EmptyMap
    /\ Gets(trace) = {}

\* ------------------------------------------- properties: parseDisplayOptions

\* The options of the first platform section of the document that resolved.
WinningOptions ==
    LET doc == IF Readable(IBooksDisplayOptionsPath)
               THEN fetcher.res[IBooksDisplayOptionsPath].body
               ELSE fetcher.res[KoboDisplayOptionsPath].body
        section == IF doc = <<>> THEN <<>> ELSE doc[1]
    IN  [i \in {j \in 1..Len(section) : section[j].name # "" /\ section[j].value # ""}
           |-> section[i]]

\* The order of the two fetches: the primary once and first, the secondary once
\* and only after the primary failed; nothing resolved gives the empty map.
FallbackOrder ==
    /\ trace[1] = <<"run", "parseDisplayOptions">>
    /\ trace[2] = <<"get", IBooksDisplayOptionsPath>>
    /\ IF Readable(IBooksDisplayOptionsPath)
       THEN Len(trace) = 2
       ELSE Len(trace) = 3 /\ trace[3] = <<"get", KoboDisplayOptionsPath>>
    /\ (~Readable(IBooksDisplayOptionsPath) /\ ~Readable(KoboDisplayOptionsPath)
          => result = EmptyMap)

Resolved == Readable(IBooksDisplayOptionsPath) \/ Readable(KoboDisplayOptionsPath)

\* C9 as stated: the fallback order, and the result holds exactly the
\* name/value pairs of the winning section's options with non-empty name and value.
C9_DisplayOptionsAllPairs ==
    pc = "done"
    => /\ FallbackOrder
       /\ (Resolved
             => {<<n, result[n]>> : n \in DOMAIN result}
                  = {<<WinningOptions[i].name, WinningOptions[i].value>> :
                        i \in DOMAIN WinningOptions})

\* C9 amended: the fallback order, and the result maps each name borne by an
\* option of the winning section with non-empty name and value, and no other
\* name, to the value of the last such option of that name in document order.
C9_DisplayOptionsLastWins ==
    pc = "done"
    => /\ FallbackOrder
       /\ (Resolved
             => /\ DOMAIN result = {WinningOptions[i].name : i \in DOMAIN WinningOptions}
                /\ \A n \in DOMAIN result :
                      LET named == {i \in DOMAIN WinningOptions : WinningOptions[i].name = n}
                          last == CHOOSE i \in named : \A j \in named : j <= i
                      IN  result[n] = WinningOptions[last].value)

\* C9 witness: only the secondary vendor's document resolves, with one option
\* fixed-layout = true, and the result is that single pair.
C9_Witness ==
    /\ pc = "done"
    /\ ~Readable(IBooksDisplayOptionsPath)
    /\ Readable(KoboDisplayOptionsPath)
    /\ fetcher.res[KoboDisplayOptionsPath].body = << <<Option("fixed-layout", "true")>> >>
    /\ result = [n \in {"fixed-layout"} |-> "true"]
    /\ trace[3] = <<"get", KoboDisplayOptionsPath>>

====
